---------------------------- MODULE Spec2Model ----------------------------
(***************************************************************************)
(* Word-cloud visualisation: main.js (startup sequence), word-cloud.js     *)
(* (WordCloud, FemaleCloud, MaleCloud) and word-processing.js              *)
(* (WordProcessing).  Strings that the code inspects character by          *)
(* character (the csv field "indicator_name") are tuples of one-character  *)
(* strings; words that are only passed around are plain strings.           *)
(* JavaScript arrays are 0-based, TLA+ sequences 1-based: array index k is *)
(* sequence index k + 1.                                                   *)
(***************************************************************************)
EXTENDS Integers, Sequences, FiniteSets, Bags, TLC

VARIABLES
    \* ---- main.js, awaitAll callback (word extraction) ----
    exPc,            \* position in the extraction: "loaded" | "parsed" | "classified"
    csvData,         \* results[0]: one "indicator_name" field value per row
    words,           \* const words: one array of tokens per row
    verbs,           \* const verbs
    femaleWords,     \* const femaleWords
    maleWords,       \* const maleWords (shuffleArray permutes it in place)
    \* ---- main.js, awaitAll callback and its async function ----
    outerPc,         \* the callback's synchronous code: "idle" | "start" | "afterAsync" | "done"
    iifePc,          \* the async function of line 63: "idle", the await it is at, "done" | "rejected"
    filteredFemale1, \* const filteredFemale1
    filteredFemale2, \* const filteredFemale2
    verbsLayout,     \* what verbsCloud.drawCloud handed to the layout
    \* ---- FemaleCloud (femaleCloud1) ----
    fcPc,            \* "new" | "awaitRelated" | "expanded" | "rendered"
    fcWords,         \* this.words
    synonymsArray,   \* this.synonymsArray
    femaleLayout,    \* what drawCloud handed to the layout
    \* ---- WordProcessing.relatedWords ----
    rwPc,            \* "idle" | "loop" | "fetch" | "json" | "returned" | "threw"
    rwWords,         \* parameter words
    rwIdx,           \* position of the for-of iterator (1-based)
    synonyms,        \* const synonyms
    synInFlight,     \* requests to the synonym service issued and not yet finished
    rwLog,           \* history: <<"issue", i>> and <<"settle", i>> in program order
    rwOutcome,       \* history: what the service answered for word i
    \* ---- WordProcessing.shuffleArray ----
    shPc,            \* "idle" | "loop" | "returned"
    shI,             \* loop variable i (0-based array index)
    shInput,         \* history: the array as it was passed in
    \* ---- WordProcessing.getWordFrequency ----
    gwfWords,        \* parameter words
    req,             \* per word: the state of its async callback
    allState,        \* the Promise.all promise: "none" | "pending" | "fulfilled" | "rejected"
    frequencies,     \* const frequencies (the value the promise fulfils with)
    \* ---- MaleCloud (maleCloud1) ----
    mcPc,            \* "new" | "awaitFrequencies" | "scored" | "threw"
    mcWords,         \* this.words
    wordFrequencies, \* this.wordFrequencies
    maxFrequency,    \* drawCloud's const maxFrequency
    minFrequency,    \* drawCloud's const minFrequency
    maleLayout,      \* what drawCloud handed to the layout
    preFilter,       \* history: this.words before the last filterFrequency
    lastThreshold    \* history: the argument of the last filterFrequency (-1: none yet)

extractVars == <<exPc, csvData, words, verbs, femaleWords, maleWords>>
mainVars    == <<outerPc, iifePc, filteredFemale1, filteredFemale2, verbsLayout>>
femaleVars  == <<fcPc, fcWords, synonymsArray, femaleLayout>>
rwVars      == <<rwPc, rwWords, rwIdx, synonyms, synInFlight, rwLog, rwOutcome>>
shVars      == <<shPc, shI, shInput>>
gwfVars     == <<gwfWords, req, allState, frequencies>>
maleVars    == <<mcPc, mcWords, wordFrequencies, maxFrequency, minFrequency,
                 maleLayout, preFilter, lastThreshold>>
vars == <<extractVars, mainVars, femaleVars, rwVars, shVars, gwfVars, maleVars>>

---------------------------------------------------------------------------
\* Bounds of the model
MaxRows     == 2    \* rows of the csv
MaxFieldLen == 3    \* characters of a generated field value
MaxWords    == 3    \* words handed to an enrichment call or held by a cloud
MaxStartup  == 3    \* words of femaleWords and maleWords together in the startup sequence
MaxShuffle  == 3    \* length of an array handed to shuffleArray on its own

---------------------------------------------------------------------------
\* Generic array helpers (Array.prototype / Set semantics)

Range(s) == {s[i] : i \in 1..Len(s)}

\* Array.prototype.includes
Includes(arr, x) == \E i \in 1..Len(arr) : arr[i] = x

RECURSIVE Flat(_)
\* Array.prototype.flat() (depth 1) on an array of arrays
Flat(arrs) ==
    IF arrs = <<>> THEN <<>> ELSE Head(arrs) \o Flat(Tail(arrs))

RECURSIVE UniqueFrom(_, _)
UniqueFrom(arr, seen) ==
    IF arr = <<>> THEN seen
    ELSE UniqueFrom(Tail(arr),
                    IF Includes(seen, Head(arr)) THEN seen ELSE Append(seen, Head(arr)))

\* Array.from(new Set(arr)): insertion order, first occurrence kept
Unique(arr) == UniqueFrom(arr, <<>>)

\* Array.prototype.slice(0, n)
Slice0(arr, n) == SubSeq(arr, 1, IF n < Len(arr) THEN n ELSE Len(arr))

\* All sequences over S of length lo..hi
SeqsOf(S, lo, hi) == UNION {[1..n -> S] : n \in lo..hi}

\* All duplicate-free sequences over S of length lo..hi
UniqueSeqsOf(S, lo, hi) ==
    {s \in SeqsOf(S, lo, hi) : \A i, j \in 1..Len(s) : s[i] = s[j] => i = j}

\* A layout's input: nothing handed over yet, or the {text, size} pairs
NoLayout == [drawn |-> FALSE, words |-> <<>>]

\* A JavaScript number: a finite value num / den, or NaN, Infinity, -Infinity;
\* NoNumber is a constant that has not been evaluated
JsNumber(n)  == [kind |-> "number", num |-> n, den |-> 1]
JsNaN        == [kind |-> "NaN", num |-> 0, den |-> 1]
JsInfinity   == [kind |-> "Infinity", num |-> 0, den |-> 1]
JsNegInfinity == [kind |-> "-Infinity", num |-> 0, den |-> 1]
NoNumber     == [kind |-> "none", num |-> 0, den |-> 1]

---------------------------------------------------------------------------
\* main.js lines 46-60: word extraction

LowerLetters == {"a", "b", "d", "e", "f", "l", "m", "r", "t", "u"}
UpperLetters == {"A", "B", "F", "M"}
Whitespace   == {" "}

\* String.prototype.toLowerCase on one character
LowerChar(c) ==
    CASE c = "A" -> "a"
      [] c = "B" -> "b"
      [] c = "F" -> "f"
      [] c = "M" -> "m"
      [] OTHER   -> c

ToLowerCase(s) == [i \in 1..Len(s) |-> LowerChar(s[i])]

\* the character class [^a-zA-Z\s]
IsNonAlphaNonSpace(c) == c \notin (LowerLetters \cup UpperLetters \cup Whitespace)

\* .replace(/[^a-zA-Z\s]/g, ' ')
ReplaceNonAlpha(s) == [i \in 1..Len(s) |-> IF IsNonAlphaNonSpace(s[i]) THEN " " ELSE s[i]]

RECURSIVE RunEnd(_, _)
\* first index at or after i that is not whitespace (Len(s) + 1 when there is none):
\* the end of the greedy match of \s+ starting at i
RunEnd(s, i) ==
    IF i > Len(s) \/ s[i] \notin Whitespace THEN i ELSE RunEnd(s, i + 1)

RECURSIVE SplitRec(_, _, _, _)
SplitRec(s, i, cur, acc) ==
    IF i > Len(s) THEN Append(acc, cur)
    ELSE IF s[i] \in Whitespace
         THEN SplitRec(s, RunEnd(s, i), <<>>, Append(acc, cur))
         ELSE SplitRec(s, i + 1, Append(cur, s[i]), acc)

\* .split(/\s+/): the pieces between the whitespace runs, the (empty) piece
\* before a leading run and after a trailing run included
SplitWhitespace(s) == SplitRec(s, 1, <<>>, <<>>)

\* the map callback of line 48-54
RowTokens(field) == SplitWhitespace(ReplaceNonAlpha(ToLowerCase(field)))

\* JavaScript truthiness of an array object (the argument of .filter(word => word)
\* on line 55 is a row's array of tokens): every object is truthy
Truthy(arr) == TRUE

\* lines 47-55
ParseWords(data) ==
    SelectSeq([i \in 1..Len(data) |-> RowTokens(data[i])], Truthy)

FEMALE == <<"f", "e", "m", "a", "l", "e">>
MALE   == <<"m", "a", "l", "e">>

\* lines 59, 60
WordsOfRowsWith(ws, token) ==
    Unique(Flat(SelectSeq(ws, LAMBDA array : Includes(array, token))))

ExampleFields ==
    { <<"M", "a", "l", "e", " ", "r", "a", "t", "e">>,
      <<"F", "e", "m", "a", "l", "e", " ", "r", "a", "t", "e">>,
      <<"r", "a", "t", "e", " ", "(", "m", "a", "l", "e", ")">>,
      <<"A", "d", "u", "l", "t", " ", "1", "-", "f", "e", "m", "a", "l", "e">> }

Alphabet == {"a", "B", " ", "1"}

FieldValues == ExampleFields \cup SeqsOf(Alphabet, 0, MaxFieldLen)

\* The parts of the state as they are before the code that owns them has run
MainIdle ==
    /\ outerPc = "idle" /\ iifePc = "idle"
    /\ filteredFemale1 = <<>> /\ filteredFemale2 = <<>> /\ verbsLayout = NoLayout

FemaleNew(ws) ==
    /\ fcPc = "new" /\ fcWords = ws /\ synonymsArray = <<>> /\ femaleLayout = NoLayout

RwIdle ==
    /\ rwPc = "idle" /\ rwWords = <<>> /\ rwIdx = 1 /\ synonyms = <<>>
    /\ synInFlight = {} /\ rwLog = <<>> /\ rwOutcome = <<>>

ShIdle ==
    /\ shPc = "idle" /\ shI = 0 /\ shInput = <<>>

GwfIdle ==
    /\ gwfWords = <<>> /\ req = <<>> /\ allState = "none" /\ frequencies = <<>>

MaleNew(ws) ==
    /\ mcPc = "new" /\ mcWords = ws /\ wordFrequencies = <<>>
    /\ maxFrequency = NoNumber /\ minFrequency = NoNumber /\ maleLayout = NoLayout
    /\ preFilter = <<>> /\ lastThreshold = -1

\* the extraction is not part of the run
NoExtract ==
    /\ exPc = "classified" /\ csvData = <<>> /\ words = <<>> /\ verbs = <<>>

\* the csv has been loaded, nothing is parsed yet
InitExtract ==
    /\ exPc = "loaded"
    /\ csvData \in SeqsOf(FieldValues, 0, MaxRows)
    /\ words = <<>> /\ verbs = <<>> /\ femaleWords = <<>> /\ maleWords = <<>>
    /\ MainIdle /\ FemaleNew(<<>>) /\ RwIdle /\ ShIdle /\ GwfIdle /\ MaleNew(<<>>)

\* lines 46-55
ExtractWords ==
    /\ exPc = "loaded"
    /\ words' = ParseWords(csvData)
    /\ exPc' = "parsed"
    /\ UNCHANGED <<csvData, verbs, femaleWords, maleWords>>
    /\ UNCHANGED <<mainVars, femaleVars, rwVars, shVars, gwfVars, maleVars>>

\* lines 58-60; RiTa.isVerb is an external classifier: any set of verbs
ClassifyWords ==
    /\ exPc = "parsed"
    /\ \E isVerb \in SUBSET Range(Flat(words)) :
           verbs' = SelectSeq(Unique(Flat(words)), LAMBDA word : word \in isVerb)
    /\ femaleWords' = WordsOfRowsWith(words, FEMALE)
    /\ maleWords' = WordsOfRowsWith(words, MALE)
    /\ exPc' = "classified"
    /\ UNCHANGED <<csvData, words>>
    /\ UNCHANGED <<mainVars, femaleVars, rwVars, shVars, gwfVars, maleVars>>

NextExtract == ExtractWords \/ ClassifyWords

SpecExtract == InitExtract /\ [][NextExtract]_vars

\* a vocabulary without duplicates, without the empty token, of letters only
CleanVocabulary(v) ==
    /\ \A i, j \in 1..Len(v) : v[i] = v[j] => i = j
    /\ \A i \in 1..Len(v) :
        /\ v[i] # <<>>
        /\ \A k \in 1..Len(v[i]) : v[i][k] \in LowerLetters \cup UpperLetters

\* C7: after extraction the vocabularies handed to the female and male clouds
\* hold no duplicate token, no empty token and no token with a non-alphabetic
\* character.
C7_CleanVocabulary ==
    exPc = "classified" => CleanVocabulary(femaleWords) /\ CleanVocabulary(maleWords)

---------------------------------------------------------------------------
\* word-processing.js, relatedWords; word-cloud.js, FemaleCloud

\* Words as the clouds and the enrichment calls see them
WordPool == {"female", "male", "rate", "adult"}

\* Words of the vocabularies in the startup sequence
StartupPool == {"female", "male", "rate"}

\* WordCloud.drawCloud, line 37: the {text, size} pairs handed to the layout
DefaultSize == 20
DefaultLayout(ws) ==
    [drawn |-> TRUE, words |-> [i \in 1..Len(ws) |-> [text |-> ws[i], size |-> DefaultSize]]]

\* Bodies the synonym service may answer with: a JSON array of
\* {relationshipType, words}, or a body response.json() cannot parse
SynEntry(type, ws) == [relationshipType |-> type, words |-> ws]
SynBodies ==
    { [parse |-> "error", data |-> <<>>],
      [parse |-> "ok", data |-> <<>>],
      [parse |-> "ok", data |-> <<SynEntry("antonym", <<"x">>)>>],
      [parse |-> "ok", data |-> <<SynEntry("synonym", <<"s1", "s2">>)>>],
      [parse |-> "ok", data |-> <<SynEntry("antonym", <<"x">>),
                                  SynEntry("synonym", <<"s3">>),
                                  SynEntry("synonym", <<"s1">>)>>] }

\* a loop that pushes every entry's words, whatever its relationshipType
PushAllRelated(acc, data, i) ==
    acc \o [k \in 1..(Len(data) - i + 1) |-> data[k + i - 1].words]

RECURSIVE PushSynonyms(_, _, _)
\* lines 318-322: for (let i = 0; i < data.length; i++) (i is 1-based here)
PushSynonyms(acc, data, i) ==
    IF i > Len(data) THEN acc
    ELSE PushSynonyms(IF data[i].relationshipType = "synonym"
                      THEN Append(acc, data[i].words) ELSE acc,
                      data, i + 1)

\* FemaleCloud.getSynonyms up to its await, and relatedWords' prologue
GetSynonymsCall(thisWords) ==
    /\ fcPc' = "awaitRelated"
    /\ rwPc' = "loop" /\ rwWords' = thisWords /\ rwIdx' = 1 /\ synonyms' = <<>>
    /\ synInFlight' = {} /\ rwLog' = <<>> /\ rwOutcome' = <<>>
    /\ UNCHANGED <<synonymsArray, femaleLayout>>

\* the request of the current word is over (for the history variables)
RwSettled(kind, data) ==
    /\ synInFlight' = synInFlight \ {rwIdx}
    /\ rwLog' = Append(rwLog, <<"settle", rwIdx>>)
    /\ rwOutcome' = Append(rwOutcome, [kind |-> kind, data |-> data])

\* a relatedWords without the try/catch: the exception leaves the function
RwUncaught ==
    /\ rwPc' = "threw"
    /\ rwIdx' = rwIdx

\* lines 326-328: the catch block logs, and the for-of loop goes on
RwCaught ==
    /\ rwPc' = "loop"
    /\ rwIdx' = rwIdx + 1

\* the end of the try block without an exception: the for-of loop goes on
RwNextWord ==
    /\ rwPc' = "loop"
    /\ rwIdx' = rwIdx + 1

\* a loop that starts the request and goes on without awaiting it
RwIssueNoAwait ==
    /\ rwPc = "loop"
    /\ rwIdx <= Len(rwWords)
    /\ synInFlight' = synInFlight \cup {rwIdx}
    /\ rwLog' = Append(rwLog, <<"issue", rwIdx>>)
    /\ rwIdx' = rwIdx + 1
    /\ UNCHANGED <<rwPc, rwWords, synonyms, rwOutcome>>
    /\ UNCHANGED <<extractVars, mainVars, femaleVars, shVars, gwfVars, maleVars>>

\* lines 309-312: the next word's fetch is started and awaited
RwIssue ==
    /\ rwPc = "loop"
    /\ rwIdx <= Len(rwWords)
    /\ synInFlight' = synInFlight \cup {rwIdx}
    /\ rwLog' = Append(rwLog, <<"issue", rwIdx>>)
    /\ rwPc' = "fetch"
    /\ UNCHANGED <<rwWords, rwIdx, synonyms, rwOutcome>>
    /\ UNCHANGED <<extractVars, mainVars, femaleVars, shVars, gwfVars, maleVars>>

\* lines 312-316, 323-328: the awaited fetch settles
RwFetchSettles ==
    /\ rwPc = "fetch"
    /\ \/ \* fetch rejects (transport error): caught
          /\ RwCaught
          /\ RwSettled("transport", <<>>)
          /\ UNCHANGED synonyms
       \/ \* a response with response.ok false: logged, body not read
          /\ RwNextWord
          /\ RwSettled("status", <<>>)
          /\ UNCHANGED synonyms
       \/ \* response.ok: response.json() is awaited
          /\ rwPc' = "json"
          /\ UNCHANGED <<rwIdx, synonyms, synInFlight, rwLog, rwOutcome>>
    /\ UNCHANGED rwWords
    /\ UNCHANGED <<extractVars, mainVars, femaleVars, shVars, gwfVars, maleVars>>

\* lines 316-322, 326-328: the awaited response.json() settles
RwJsonSettles ==
    /\ rwPc = "json"
    /\ \E body \in SynBodies :
        IF body.parse = "error"
        THEN /\ RwCaught
             /\ RwSettled("unparseable", <<>>)
             /\ UNCHANGED synonyms
        ELSE /\ synonyms' = PushSynonyms(synonyms, body.data, 1)
             /\ RwNextWord
             /\ RwSettled("ok", body.data)
    /\ UNCHANGED rwWords
    /\ UNCHANGED <<extractVars, mainVars, femaleVars, shVars, gwfVars, maleVars>>

\* lines 309, 331: the iterator is exhausted, return synonyms
RwReturn ==
    /\ rwPc = "loop"
    /\ rwIdx > Len(rwWords)
    /\ rwPc' = "returned"
    /\ UNCHANGED <<rwWords, rwIdx, synonyms, synInFlight, rwLog, rwOutcome>>
    /\ UNCHANGED <<extractVars, mainVars, femaleVars, shVars, gwfVars, maleVars>>

\* FemaleCloud.getSynonyms, lines 100-101, called on a constructed cloud
GetSynonyms ==
    /\ fcPc = "new"
    /\ GetSynonymsCall(fcWords)
    /\ UNCHANGED fcWords
    /\ UNCHANGED <<extractVars, mainVars, shVars, gwfVars, maleVars>>

\* FemaleCloud.getSynonyms, lines 101-102: the await of relatedWords resumes
GetSynonymsResume ==
    /\ fcPc = "awaitRelated"
    /\ rwPc = "returned"
    /\ synonymsArray' = Flat(synonyms)
    /\ fcPc' = "expanded"
    /\ UNCHANGED <<fcWords, femaleLayout>>
    /\ UNCHANGED <<extractVars, mainVars, rwVars, shVars, gwfVars, maleVars>>

\* FemaleCloud.renderSynonyms, lines 110-113 (drawCloud is WordCloud's)
RenderSynonymsEffect ==
    /\ fcWords' = synonymsArray
    /\ femaleLayout' = DefaultLayout(synonymsArray)
    /\ fcPc' = "rendered"
    /\ UNCHANGED synonymsArray

\* renderSynonyms called on its own, after getSynonyms
RenderSynonyms ==
    /\ fcPc = "expanded"
    /\ RenderSynonymsEffect
    /\ UNCHANGED <<extractVars, mainVars, rwVars, shVars, gwfVars, maleVars>>

\* a FemaleCloud constructed over a list of unique words (filterWords' result)
InitSyn ==
    /\ NoExtract /\ femaleWords = <<>> /\ maleWords = <<>>
    /\ MainIdle /\ RwIdle /\ ShIdle /\ GwfIdle /\ MaleNew(<<>>)
    /\ \E ws \in UniqueSeqsOf(WordPool, 0, MaxWords) : FemaleNew(ws)

NextSyn ==
    \/ GetSynonyms
    \/ RwIssue
    \/ RwFetchSettles
    \/ RwJsonSettles
    \/ RwReturn
    \/ GetSynonymsResume
    \/ RenderSynonyms

SpecSyn == InitSyn /\ [][NextSyn]_vars

\* The synonym-tagged entries of one answered word, as the claim states them
SynonymEntriesOf(outcome) ==
    IF outcome.kind = "ok"
    THEN LET tagged == SelectSeq(outcome.data, LAMBDA e : e.relationshipType = "synonym")
         IN  [k \in 1..Len(tagged) |-> tagged[k].words]
    ELSE <<>>

\* C2: relatedWords never throws, whatever each word's request does; when it
\* returns, a request was issued for every word, in order, and the result holds
\* exactly the synonym-tagged entries of the words whose requests succeeded.
C2_FailuresIsolated ==
    /\ rwPc # "threw"
    /\ rwPc = "returned" =>
        /\ Len(rwOutcome) = Len(rwWords)
        /\ SelectSeq(rwLog, LAMBDA e : e[1] = "issue")
             = [i \in 1..Len(rwWords) |-> <<"issue", i>>]
        /\ synonyms = Flat([i \in 1..Len(rwWords) |-> SynonymEntriesOf(rwOutcome[i])])

\* C2 witness: a call returned although an earlier word's request failed, and a
\* later word's synonyms are in the result
C2_Witness ==
    /\ rwPc = "returned"
    /\ \E i, j \in 1..Len(rwWords) :
        /\ i < j
        /\ rwOutcome[i].kind \in {"transport", "status", "unparseable"}
        /\ rwOutcome[j].kind = "ok"
        /\ SynonymEntriesOf(rwOutcome[j]) # <<>>
        /\ synonyms # <<>>

\* C4: at most one synonym request is in flight, and the request of word i + 1
\* is issued only after the request of word i has settled, in input order.
C4_Sequential ==
    /\ Cardinality(synInFlight) <= 1
    /\ \A k \in 1..Len(rwLog) :
        rwLog[k][1] = "issue" =>
            LET i == rwLog[k][2]
            IN  /\ i = 1 + Cardinality({m \in 1..(k - 1) : rwLog[m][1] = "issue"})
                /\ i > 1 => \E m \in 1..(k - 1) : rwLog[m] = <<"settle", i - 1>>

\* C4 witness: the last of several words' requests is in flight, all earlier settled
C4_Witness ==
    /\ rwPc \in {"fetch", "json"}
    /\ rwIdx >= 2
    /\ synInFlight = {rwIdx}
    /\ Len(rwOutcome) = rwIdx - 1

---------------------------------------------------------------------------
\* word-processing.js, shuffleArray (the array is main.js' maleWords, permuted
\* in place)

\* an assignment that copies one way only: wordArray[i] = wordArray[j]
SwapLossy(arr, i, j) == [arr EXCEPT ![i + 1] = arr[j + 1]]

\* line 294: [wordArray[i], wordArray[j]] = [wordArray[j], wordArray[i]]
\* (i and j are the 0-based array indices)
Swap(arr, i, j) == [arr EXCEPT ![i + 1] = arr[j + 1], ![j + 1] = arr[i + 1]]

\* line 292, loop initialisation
ShuffleCall(wordArray) ==
    /\ shPc' = "loop"
    /\ shI' = Len(wordArray) - 1
    /\ shInput' = wordArray

\* shuffleArray called on its own
ShuffleArray ==
    /\ shPc = "idle"
    /\ ShuffleCall(maleWords)
    /\ UNCHANGED <<extractVars, mainVars, femaleVars, rwVars, gwfVars, maleVars>>

\* lines 292-295: one iteration; Math.floor(Math.random() * (i + 1)) is any of 0..i
ShuffleStep ==
    /\ shPc = "loop"
    /\ shI > 0
    /\ \E j \in 0..shI : maleWords' = Swap(maleWords, shI, j)
    /\ shI' = shI - 1
    /\ UNCHANGED <<shPc, shInput>>
    /\ UNCHANGED <<exPc, csvData, words, verbs, femaleWords>>
    /\ UNCHANGED <<mainVars, femaleVars, rwVars, gwfVars, maleVars>>

\* lines 292, 296: the loop is over, return wordArray
ShuffleReturn ==
    /\ shPc = "loop"
    /\ shI <= 0
    /\ shPc' = "returned"
    /\ UNCHANGED <<shI, shInput>>
    /\ UNCHANGED <<extractVars, mainVars, femaleVars, rwVars, gwfVars, maleVars>>

InitShuffle ==
    /\ NoExtract /\ femaleWords = <<>>
    /\ maleWords \in SeqsOf(WordPool, 0, MaxShuffle)
    /\ MainIdle /\ FemaleNew(<<>>) /\ RwIdle /\ ShIdle /\ GwfIdle /\ MaleNew(<<>>)

NextShuffle == ShuffleArray \/ ShuffleStep \/ ShuffleReturn

SpecShuffle == InitShuffle /\ [][NextShuffle]_vars

\* how often x occurs in s
Occurrences(s, x) == Cardinality({i \in 1..Len(s) : s[i] = x})

\* C10: from the call on, after every swap and at the return, the array has the
\* length of the input and every element as often as the input has it.
C10_ShufflePermutes ==
    shPc \in {"loop", "returned"} =>
        /\ Len(maleWords) = Len(shInput)
        /\ \A x \in Range(maleWords) \cup Range(shInput) :
               Occurrences(maleWords, x) = Occurrences(shInput, x)

\* C10 witness: a shuffle of an array with a repeated element has returned a
\* different order
C10_Witness ==
    /\ shPc = "returned"
    /\ Len(shInput) = 3
    /\ Cardinality(Range(shInput)) = 2
    /\ maleWords # shInput

---------------------------------------------------------------------------
\* word-processing.js, getWordFrequency; word-cloud.js, MaleCloud

\* Bodies the frequency service may answer with: a JSON array of matches
\* {word, score}, or a body response.json() cannot parse
FreqBodies ==
    { [parse |-> "error", data |-> <<>>],
      [parse |-> "ok", data |-> <<>>],
      [parse |-> "ok", data |-> <<[score |-> 5]>>],
      [parse |-> "ok", data |-> <<[score |-> 10], [score |-> 3]>>],
      [parse |-> "ok", data |-> <<[score |-> 20]>>] }

NoResult == [word |-> "", frequency |-> 0]

\* one word's async callback: awaiting fetch
Fetching == [st |-> "fetch", data |-> <<>>, result |-> NoResult]

\* lines 345-355
FrequencyResult(word, data) ==
    IF Len(data) > 0
    THEN [word |-> word, frequency |-> data[1].score]
    ELSE [word |-> word, frequency |-> 0]

\* a combinator that fulfils as soon as no callback is left awaiting its fetch
PromiseAllEarly(reqs) ==
    IF \E i \in 1..Len(reqs) : reqs[i].st = "rejected" THEN "rejected"
    ELSE IF \A i \in 1..Len(reqs) : reqs[i].st \in {"fulfilled", "json"} THEN "fulfilled"
    ELSE "pending"

\* line 342, Promise.all over the callbacks' promises: rejected with the first
\* rejection, fulfilled once every promise is fulfilled
PromiseAll(reqs) ==
    IF \E i \in 1..Len(reqs) : reqs[i].st = "rejected" THEN "rejected"
    ELSE IF \A i \in 1..Len(reqs) : reqs[i].st = "fulfilled" THEN "fulfilled"
    ELSE "pending"

\* the value Promise.all fulfils with: the callbacks' results in input order
ResultsOf(reqs) == [i \in 1..Len(reqs) |-> reqs[i].result]

\* the promise reactions that follow a callback's settling
GwfSettle(reqs) ==
    /\ req' = reqs
    /\ allState' = IF allState = "pending" THEN PromiseAll(reqs) ELSE allState
    /\ frequencies' = IF allState = "pending" /\ PromiseAll(reqs) = "fulfilled"
                      THEN ResultsOf(reqs) ELSE frequencies

\* lines 340-343: words.map starts every callback, each runs up to its fetch
GwfCall(ws) ==
    /\ gwfWords' = ws
    /\ req' = [i \in 1..Len(ws) |-> Fetching]
    /\ allState' = PromiseAll([i \in 1..Len(ws) |-> Fetching])
    /\ frequencies' = <<>>

\* line 343: the fetch of word i settles
GwfFetchSettles ==
    /\ allState # "none"
    /\ \E i \in 1..Len(req) :
        /\ req[i].st = "fetch"
        /\ \/ \* fetch rejects (transport error): the callback's promise rejects
              GwfSettle([req EXCEPT ![i].st = "rejected"])
           \/ \* a response arrives (response.ok is not looked at): json() is awaited
              GwfSettle([req EXCEPT ![i].st = "json"])
    /\ UNCHANGED gwfWords
    /\ UNCHANGED <<extractVars, mainVars, femaleVars, rwVars, shVars, maleVars>>

\* lines 344-355: response.json() of word i settles
GwfJsonSettles ==
    /\ allState # "none"
    /\ \E i \in 1..Len(req), body \in FreqBodies :
        /\ req[i].st = "json"
        /\ IF body.parse = "error"
           THEN GwfSettle([req EXCEPT ![i].st = "rejected"])
           ELSE GwfSettle([req EXCEPT ![i] = [st |-> "fulfilled", data |-> body.data,
                               result |-> FrequencyResult(gwfWords[i], body.data)]])
    /\ UNCHANGED gwfWords
    /\ UNCHANGED <<extractVars, mainVars, femaleVars, rwVars, shVars, maleVars>>

\* Array.prototype.find with entry => entry.word === word, as the position of
\* the entry found (0: find returned undefined)
FindEntry(entries, word) ==
    IF \E k \in 1..Len(entries) : entries[k].word = word
    THEN CHOOSE k \in 1..Len(entries) :
             /\ entries[k].word = word
             /\ \A m \in 1..(k - 1) : entries[m].word # word
    ELSE 0

\* lines 144-154: the map callback of getFrequencies
FrequencyObj(entries, word) ==
    LET frequencyEntry == FindEntry(entries, word)
    IN  [text |-> word, size |-> 0,
         frequency |-> IF frequencyEntry # 0 THEN entries[frequencyEntry].frequency ELSE 0]

\* MaleCloud.getFrequencies up to its await (line 142)
GetFrequenciesCall(thisWords) ==
    /\ mcPc' = "awaitFrequencies"
    /\ GwfCall(thisWords)
    /\ UNCHANGED <<wordFrequencies, maxFrequency, minFrequency, maleLayout,
                   preFilter, lastThreshold>>

\* getFrequencies called on a constructed cloud
GetFrequencies ==
    /\ mcPc = "new"
    /\ GetFrequenciesCall(mcWords)
    /\ UNCHANGED mcWords
    /\ UNCHANGED <<extractVars, mainVars, femaleVars, rwVars, shVars>>

\* lines 142-154: the await resumes with the index
GetFrequenciesResume ==
    /\ mcPc = "awaitFrequencies"
    /\ allState = "fulfilled"
    /\ wordFrequencies' = frequencies
    /\ mcWords' = [i \in 1..Len(mcWords) |-> FrequencyObj(frequencies, mcWords[i])]
    /\ mcPc' = "scored"
    /\ UNCHANGED <<maxFrequency, minFrequency, maleLayout, preFilter, lastThreshold>>
    /\ UNCHANGED <<extractVars, mainVars, femaleVars, rwVars, shVars, gwfVars>>

\* line 142: the await throws the rejection, getFrequencies' promise rejects
GetFrequenciesThrows ==
    /\ mcPc = "awaitFrequencies"
    /\ allState = "rejected"
    /\ mcPc' = "threw"
    /\ UNCHANGED <<mcWords, wordFrequencies, maxFrequency, minFrequency, maleLayout,
                   preFilter, lastThreshold>>
    /\ UNCHANGED <<extractVars, mainVars, femaleVars, rwVars, shVars, gwfVars>>

\* Thresholds a caller passes to filterFrequency (main.js passes 10)
Thresholds == {5, 10, 20}

RECURSIVE filterStrict(_, _)
\* a filter that keeps only the words above the threshold
filterStrict(ws, threshold) ==
    IF ws = <<>> THEN <<>>
    ELSE IF Head(ws).frequency > threshold
         THEN <<Head(ws)>> \o filterStrict(Tail(ws), threshold)
         ELSE filterStrict(Tail(ws), threshold)

RECURSIVE filterFrequency(_, _)
\* line 164: this.words.filter(word => word.frequency >= threshold)
filterFrequency(ws, threshold) ==
    IF ws = <<>> THEN <<>>
    ELSE IF Head(ws).frequency >= threshold
         THEN <<Head(ws)>> \o filterFrequency(Tail(ws), threshold)
         ELSE filterFrequency(Tail(ws), threshold)

\* Math.max(...list) over integers: -Infinity for no argument
MathMax(list) ==
    IF list = <<>> THEN JsNegInfinity
    ELSE JsNumber(CHOOSE m \in Range(list) : \A x \in Range(list) : x <= m)

\* Math.min(...list) over integers: Infinity for no argument
MathMin(list) ==
    IF list = <<>> THEN JsInfinity
    ELSE JsNumber(CHOOSE m \in Range(list) : \A x \in Range(list) : x >= m)

\* a / b on integers as IEEE-754 decides it: 0 / 0 is NaN, x / 0 is +-Infinity
JsDivide(a, b) ==
    IF b # 0 THEN [kind |-> "number", num |-> a, den |-> b]
    ELSE IF a = 0 THEN JsNaN
    ELSE IF a > 0 THEN JsInfinity
    ELSE JsNegInfinity

\* n + q for an integer n: NaN and the infinities absorb the finite summand
JsAdd(n, q) ==
    IF q.kind = "number" THEN [kind |-> "number", num |-> n * q.den + q.num, den |-> q.den]
    ELSE q

minSize == 10
maxSize == 42

\* lines 206-211, for the finite frequencies drawCloud calls it with
scaleFontSize(frequency, minF, maxF) ==
    JsAdd(minSize, JsDivide((frequency - minF.num) * (maxSize - minSize),
                            maxF.num - minF.num))

\* lines 179-188: the constants and the list handed to the layout
FrequenciesOf(ws) == [i \in 1..Len(ws) |-> ws[i].frequency]

ScaledLayout(ws) ==
    [drawn |-> TRUE,
     words |-> [i \in 1..Len(ws) |->
                   [text |-> ws[i].text,
                    size |-> scaleFontSize(ws[i].frequency,
                                           MathMin(FrequenciesOf(ws)),
                                           MathMax(FrequenciesOf(ws)))]]]

\* MaleCloud.filterFrequency followed by nothing else
FilterFrequencyEffect(threshold) ==
    /\ preFilter' = mcWords
    /\ lastThreshold' = threshold
    /\ mcWords' = filterFrequency(mcWords, threshold)

\* MaleCloud.drawCloud, lines 174-195, over the words ws
DrawCloudEffect(ws) ==
    /\ maxFrequency' = MathMax(FrequenciesOf(ws))
    /\ minFrequency' = MathMin(FrequenciesOf(ws))
    /\ maleLayout' = ScaledLayout(ws)

\* filterFrequency called on a scored cloud
FilterFrequency ==
    /\ mcPc = "scored"
    /\ \E threshold \in Thresholds : FilterFrequencyEffect(threshold)
    /\ UNCHANGED <<mcPc, wordFrequencies, maxFrequency, minFrequency, maleLayout>>
    /\ UNCHANGED <<extractVars, mainVars, femaleVars, rwVars, shVars, gwfVars>>

\* renderFrequency (lines 244-246) called on a scored cloud
RenderFrequency ==
    /\ mcPc = "scored"
    /\ DrawCloudEffect(mcWords)
    /\ UNCHANGED <<mcPc, mcWords, wordFrequencies, preFilter, lastThreshold>>
    /\ UNCHANGED <<extractVars, mainVars, femaleVars, rwVars, shVars, gwfVars>>

\* a MaleCloud constructed over a list of unique words
InitMale ==
    /\ NoExtract /\ femaleWords = <<>> /\ maleWords = <<>>
    /\ MainIdle /\ FemaleNew(<<>>) /\ RwIdle /\ ShIdle /\ GwfIdle
    /\ \E ws \in UniqueSeqsOf(WordPool, 0, MaxWords) : MaleNew(ws)

NextMale ==
    \/ GetFrequencies
    \/ GwfFetchSettles
    \/ GwfJsonSettles
    \/ GetFrequenciesResume
    \/ GetFrequenciesThrows
    \/ FilterFrequency
    \/ RenderFrequency

SpecMale == InitMale /\ [][NextMale]_vars

AllSettled == \A i \in 1..Len(req) : req[i].st \in {"fulfilled", "rejected"}

\* C1: when every request has settled and at least one of them failed, the
\* batch call has completed with a result that holds the results of the words
\* whose requests succeeded.
C1_BatchNeverFails ==
    (allState # "none" /\ AllSettled /\ \E i \in 1..Len(req) : req[i].st = "rejected") =>
        /\ allState = "fulfilled"
        /\ \A i \in 1..Len(req) :
               req[i].st = "fulfilled" => Includes(frequencies, req[i].result)

\* the frequency the service's answer stands for
ExpectedFrequency(data) == IF data = <<>> THEN 0 ELSE Head(data).score

\* C5: the index is returned only when every request has settled, and then has
\* one entry per input word, in input order, entry i carrying word i and the
\* first match's score, or 0 for an empty answer; getFrequencies attaches the
\* same frequency to word i.
C5_IndexComplete ==
    /\ allState = "fulfilled" =>
        /\ \A i \in 1..Len(req) : req[i].st = "fulfilled"
        /\ Len(frequencies) = Len(gwfWords)
        /\ \A i \in 1..Len(gwfWords) :
            /\ frequencies[i].word = gwfWords[i]
            /\ frequencies[i].frequency = ExpectedFrequency(req[i].data)
    /\ mcPc = "scored" /\ lastThreshold = -1 =>
        /\ wordFrequencies = frequencies
        /\ Len(mcWords) = Len(gwfWords)
        /\ \A i \in 1..Len(gwfWords) :
            mcWords[i] = [text |-> gwfWords[i], size |-> 0,
                          frequency |-> ExpectedFrequency(req[i].data)]

\* C5 witness: an index of three entries, one for an empty answer, one for an
\* answer of two matches
C5_Witness ==
    /\ allState = "fulfilled"
    /\ Len(frequencies) = 3
    /\ \E i, j \in 1..3 :
        /\ req[i].data = <<>> /\ frequencies[i].frequency = 0
        /\ Len(req[j].data) = 2 /\ frequencies[j].frequency = 10

\* C3: a drawCloud over words that all have the same frequency hands the layout
\* a finite numeric size for every word.
C3_EqualFrequenciesSized ==
    (maleLayout.drawn /\ maleLayout.words # <<>> /\ maxFrequency = minFrequency) =>
        \A i \in 1..Len(maleLayout.words) : maleLayout.words[i].size.kind = "number"

\* C8: a drawCloud over no words evaluates neither the maximum nor the minimum
\* of the empty list, and hands the layout an empty list.
C8_EmptyCloudGuarded ==
    (maleLayout.drawn /\ maleLayout.words = <<>>) =>
        /\ maxFrequency.kind # "-Infinity"
        /\ minFrequency.kind # "Infinity"

\* C9: after filterFrequency(t) the words are exactly the former words of
\* frequency >= t, in their order, and filtering them again with t changes
\* nothing.
C9_ThresholdFilter ==
    lastThreshold # -1 =>
        /\ mcWords = SelectSeq(preFilter, LAMBDA word : ~(word.frequency < lastThreshold))
        /\ filterFrequency(mcWords, lastThreshold) = mcWords
        /\ preFilter = <<>> => mcWords = <<>>

\* C9 witness: a filter kept a word whose frequency equals the threshold and
\* dropped another one
C9_Witness ==
    /\ lastThreshold # -1
    /\ \E i \in 1..Len(mcWords) : mcWords[i].frequency = lastThreshold
    /\ Len(mcWords) < Len(preFilter)
    /\ Len(mcWords) >= 2

---------------------------------------------------------------------------
\* main.js lines 62-84: the startup sequence after the extraction

FemaleSlice1    == 10
FemaleSlice2    == 20
FilterThreshold == 10

\* word-processing.js lines 280-283
filterWords(wordArray, sliceSize) == Slice0(Unique(wordArray), sliceSize)

\* lines 63-64: the async function is called and runs up to its first await
StartAsync ==
    /\ outerPc = "start"
    /\ iifePc = "idle"
    /\ iifePc' = "awaitFilter1"
    /\ outerPc' = "afterAsync"
    /\ UNCHANGED <<filteredFemale1, filteredFemale2, verbsLayout>>
    /\ UNCHANGED <<extractVars, femaleVars, rwVars, shVars, gwfVars, maleVars>>

\* lines 83-84: the callback goes on after the call of the async function
VerbsDrawCloud ==
    /\ outerPc = "afterAsync"
    /\ verbsLayout' = DefaultLayout(verbs)
    /\ outerPc' = "done"
    /\ UNCHANGED <<iifePc, filteredFemale1, filteredFemale2>>
    /\ UNCHANGED <<extractVars, femaleVars, rwVars, shVars, gwfVars, maleVars>>

\* lines 64-65: the first await resumes (once the callback has returned)
ResumeFilter1 ==
    /\ outerPc = "done"
    /\ iifePc = "awaitFilter1"
    /\ filteredFemale1' = filterWords(femaleWords, FemaleSlice1)
    /\ iifePc' = "awaitFilter2"
    /\ UNCHANGED <<outerPc, filteredFemale2, verbsLayout>>
    /\ UNCHANGED <<extractVars, femaleVars, rwVars, shVars, gwfVars, maleVars>>

\* lines 65-70: the second await resumes, the female clouds are constructed,
\* femaleCloud1.getSynonyms is called
ResumeFilter2 ==
    /\ iifePc = "awaitFilter2"
    /\ filteredFemale2' = filterWords(femaleWords, FemaleSlice2)
    /\ fcWords' = filteredFemale1
    /\ GetSynonymsCall(filteredFemale1)
    /\ iifePc' = "awaitSynonyms"
    /\ UNCHANGED <<outerPc, filteredFemale1, verbsLayout>>
    /\ UNCHANGED <<extractVars, shVars, gwfVars, maleVars>>

\* lines 70-73: getSynonyms is over; renderSynonyms, then shuffleArray is called
ResumeSynonyms ==
    /\ iifePc = "awaitSynonyms"
    /\ fcPc = "expanded"
    /\ RenderSynonymsEffect
    /\ ShuffleCall(maleWords)
    /\ iifePc' = "awaitShuffle"
    /\ UNCHANGED <<outerPc, filteredFemale1, filteredFemale2, verbsLayout>>
    /\ UNCHANGED <<extractVars, rwVars, gwfVars, maleVars>>

\* lines 73-77: shuffleArray is over; the male clouds are constructed (maleCloud1
\* over randomMale, which is maleWords itself), maleCloud1.getFrequencies is called
ResumeShuffle ==
    /\ iifePc = "awaitShuffle"
    /\ shPc = "returned"
    /\ mcWords' = maleWords
    /\ GetFrequenciesCall(maleWords)
    /\ iifePc' = "awaitFrequencies"
    /\ UNCHANGED <<outerPc, filteredFemale1, filteredFemale2, verbsLayout>>
    /\ UNCHANGED <<extractVars, femaleVars, rwVars, shVars>>

\* lines 77-79: getFrequencies is over; filterFrequency(10), renderFrequency
ResumeFrequencies ==
    /\ iifePc = "awaitFrequencies"
    /\ mcPc = "scored"
    /\ FilterFrequencyEffect(FilterThreshold)
    /\ DrawCloudEffect(filterFrequency(mcWords, FilterThreshold))
    /\ iifePc' = "done"
    /\ UNCHANGED <<mcPc, wordFrequencies>>
    /\ UNCHANGED <<outerPc, filteredFemale1, filteredFemale2, verbsLayout>>
    /\ UNCHANGED <<extractVars, femaleVars, rwVars, shVars, gwfVars>>

\* line 77: getFrequencies rejected; the await throws and the async function's
\* promise rejects (nobody handles it)
AsyncRejected ==
    /\ iifePc = "awaitFrequencies"
    /\ mcPc = "threw"
    /\ iifePc' = "rejected"
    /\ UNCHANGED <<outerPc, filteredFemale1, filteredFemale2, verbsLayout>>
    /\ UNCHANGED <<extractVars, femaleVars, rwVars, shVars, gwfVars, maleVars>>

\* the vocabularies as lines 58-60 leave them: duplicate-free; a row's words
\* are in femaleWords when "female" is among them, in maleWords when "male" is
Init ==
    /\ exPc = "classified" /\ csvData = <<>> /\ words = <<>>
    /\ verbs \in UniqueSeqsOf({"rate"}, 0, 1)
    /\ femaleWords \in UniqueSeqsOf(StartupPool, 0, MaxStartup)
    /\ maleWords \in UniqueSeqsOf(StartupPool, 0, MaxStartup)
    /\ Len(femaleWords) + Len(maleWords) <= MaxStartup
    /\ femaleWords # <<>> => Includes(femaleWords, "female")
    /\ maleWords # <<>> => Includes(maleWords, "male")
    /\ Includes(femaleWords, "male") <=> Includes(maleWords, "female")
    /\ outerPc = "start" /\ iifePc = "idle"
    /\ filteredFemale1 = <<>> /\ filteredFemale2 = <<>> /\ verbsLayout = NoLayout
    /\ FemaleNew(<<>>) /\ RwIdle /\ ShIdle /\ GwfIdle /\ MaleNew(<<>>)

Next ==
    \/ StartAsync
    \/ VerbsDrawCloud
    \/ ResumeFilter1
    \/ ResumeFilter2
    \/ RwIssue
    \/ RwFetchSettles
    \/ RwJsonSettles
    \/ RwReturn
    \/ GetSynonymsResume
    \/ ResumeSynonyms
    \/ ShuffleStep
    \/ ShuffleReturn
    \/ ResumeShuffle
    \/ GwfFetchSettles
    \/ GwfJsonSettles
    \/ GetFrequenciesResume
    \/ GetFrequenciesThrows
    \/ ResumeFrequencies
    \/ AsyncRejected

Spec == Init /\ [][Next]_vars

\* Every continuation that is ready runs, and every request settles
FairSpec == Spec /\ WF_vars(Next)

\* C6: whatever the synonym and the frequency requests do, the verbs cloud's
\* drawCloud and the synonym cloud's renderSynonyms are both eventually invoked.
C6_OtherCloudsRender == <>(verbsLayout.drawn /\ femaleLayout.drawn)

\* C6 witness: a frequency request failed, the async function was rejected, and
\* both other clouds have been drawn, one synonym request having failed as well
C6_Witness ==
    /\ iifePc = "rejected"
    /\ \E i \in 1..Len(req) : req[i].st = "rejected"
    /\ \E i \in 1..Len(rwOutcome) : rwOutcome[i].kind # "ok"
    /\ verbsLayout.drawn
    /\ fcPc = "rendered" /\ femaleLayout.drawn
    /\ ~maleLayout.drawn

=============================================================================
